---- MODULE Spec2Model ----
(***************************************************************************)
(* A model of metalsmith-handlebars (src/src/index.ts): the plugin         *)
(* function handlebars(files, metalsmith, done), its resource loaders,     *)
(* render/compile and move.                                                *)
(*                                                                         *)
(* Text is a sequence of units.  A unit is one character ("a", "<"), one   *)
(* Handlebars expression taken as a whole ("{{title}}"), or, in a Buffer,  *)
(* one byte that is not ASCII ("xFF").  A path is the record path.parse    *)
(* makes of it: [dir, name, ext].                                          *)
(***************************************************************************)
EXTENDS Integers, Sequences, FiniteSets, TLC

\* ------------------------------------------------------------------ bounds

\* the largest number of entries of the host's file set
MaxFiles == 2

\* ------------------------------------------------------- Buffer <-> string

RECURSIVE BufferToString(_)
\* contents.toString(): UTF-8 decoding.  The byte 0xFF starts no UTF-8
\* sequence and decodes to U+FFFD; EF BF BD is the encoding of U+FFFD.
BufferToString(buf) ==
    IF buf = <<>> THEN <<>>
    ELSE IF Len(buf) >= 3 /\ SubSeq(buf, 1, 3) = <<"xEF", "xBF", "xBD">>
         THEN <<"uFFFD">> \o BufferToString(SubSeq(buf, 4, Len(buf)))
    ELSE IF Head(buf) \in {"xFF", "xEF", "xBF", "xBD"}
         THEN <<"uFFFD">> \o BufferToString(Tail(buf))
    ELSE <<Head(buf)>> \o BufferToString(Tail(buf))

RECURSIVE BufferFrom(_)
\* Buffer.from(string): UTF-8 encoding.
BufferFrom(str) ==
    IF str = <<>> THEN <<>>
    ELSE IF Head(str) = "uFFFD"
         THEN <<"xEF", "xBF", "xBD">> \o BufferFrom(Tail(str))
    ELSE <<Head(str)>> \o BufferFrom(Tail(str))

\* ------------------------------------------------------------ the engine

\* {}: the object with no keys
EmptyObject == [k \in {} |-> <<>>]

\* {...a, ...b}: the keys of both, b's value where both have the key
Spread(a, b) ==
    [k \in DOMAIN a \cup DOMAIN b |-> IF k \in DOMAIN b THEN b[k] ELSE a[k]]

\* const {key, ...rest} = obj: obj without key
Rest(obj, key) == [k \in DOMAIN obj \ {key} |-> obj[k]]

\* Handlebars.escapeExpression, on one unit
EscapeUnit(u) == IF u = "<" THEN "&lt;" ELSE u

RECURSIVE EscapeExpression(_)
EscapeExpression(str) ==
    IF str = <<>> THEN <<>>
    ELSE <<EscapeUnit(Head(str))>> \o EscapeExpression(Tail(str))

\* the context key an expression unit looks up ("" for a unit that is text)
ExprKey(u) ==
    CASE u = "{{title}}" -> "title"
      [] u = "{{layout}}" -> "layout"
      [] u = "{{__dirname}}" -> "__dirname"
      [] u = "{{{contents}}}" -> "contents"
      [] OTHER -> ""

\* a template that does not parse: an unclosed block
Malformed(src) == \E i \in 1..Len(src) : src[i] = "{{#"

\* what a call gives: a returned text, or a thrown error
\* a path, as path.parse gives it
Path(dir, name, ext) == [dir |-> dir, name |-> name, ext |-> ext]

\* an Error: its kind, and the layout and the file name its message quotes
Error(code, layout, from) == [code |-> code, layout |-> layout, from |-> from]

\* null, where an Error could be
NoError == Error("", <<>>, Path("", "", ""))

\* what a call gives: a returned text, or a thrown error
Return(text) == [ok |-> TRUE, text |-> text, error |-> NoError]
Throw(error) == [ok |-> FALSE, text |-> <<>>, error |-> error]

\* the engine's own error (a template that does not parse, a partial that
\* is not registered)
TemplateError == Error("TemplateError", <<>>, Path("", "", ""))

RECURSIVE Template(_, _, _)
\* Handlebars.compile(src)(context) with the registered partials
Template(src, context, partials) ==
    IF Malformed(src) THEN Throw(TemplateError)
    ELSE IF src = <<>> THEN Return(<<>>)
    ELSE LET u == Head(src)
             rest == Template(Tail(src), context, partials)
             here ==
                 IF u = "{{> p}}"
                 THEN IF <<"p">> \in DOMAIN partials
                      THEN Template(partials[<<"p">>], context, partials)
                      ELSE Throw(TemplateError)
                 ELSE IF ExprKey(u) # ""
                 THEN IF ExprKey(u) \in DOMAIN context
                      THEN IF u = "{{{contents}}}"
                           THEN Return(context[ExprKey(u)])
                           ELSE Return(EscapeExpression(context[ExprKey(u)]))
                      ELSE Return(<<>>)
                 ELSE Return(<<u>>)
         IN  IF ~here.ok THEN here
             ELSE IF ~rest.ok THEN rest
             ELSE Return(here.text \o rest.text)

\* ------------------------------------------------------------------ paths

\* path.join(dir, name + '.html')
HtmlName(filename) == Path(filename.dir, filename.name, ".html")

\* path.basename(layout, extension) of a layout directive: the directory
\* units go, and so does a trailing extension unit
Basename(layout, extension) ==
    LET isDir(u) == u \in {"d/"}
        last == IF \E i \in 1..Len(layout) : isDir(layout[i])
                THEN CHOOSE i \in 1..Len(layout) :
                        /\ isDir(layout[i])
                        /\ \A j \in (i+1)..Len(layout) : ~isDir(layout[j])
                ELSE 0
        base == SubSeq(layout, last + 1, Len(layout))
    IN  IF Len(base) > 1 /\ base[Len(base)] = extension
        THEN SubSeq(base, 1, Len(base) - 1)
        ELSE base

\* multimatch(paths, pattern), for the patterns of the source and its tests
Matches(filename, pattern) ==
    CASE pattern = "**/*.hbs" -> filename.ext = ".hbs"
      [] pattern = "*.{html,hbs}" ->
            filename.dir = "" /\ filename.ext \in {".html", ".hbs"}
      [] pattern = "foo.bar" ->
            filename.dir = "" /\ filename.name = "foo" /\ filename.ext = ".bar"
      [] OTHER -> FALSE

RECURSIVE Match(_, _)
Match(paths, pattern) ==
    IF paths = <<>> THEN <<>>
    ELSE (IF Matches(Head(paths), pattern) THEN <<Head(paths)>> ELSE <<>>)
         \o Match(Tail(paths), pattern)

\* ---------------------------------------------------------------- compile

\* if (layout): the key is there and its value is not the empty string
Truthy(obj, key) == key \in DOMAIN obj /\ obj[key] # <<>>

\* the Error of a missing layout, its message without the file name
LayoutErrorNoFile(layout, filename) ==
    Error("LayoutMissing", layout, Path("", "", ""))

\* the Error compile throws for a layout that is not loaded; the message
\* quotes the layout directive and the file name
LayoutError(layout, filename) ==
    Error("LayoutMissing", layout, filename)

\* compile, with the layout rendered against locals instead of the context
compileLayoutSeesLocals(filename, contents, context, settings, partials) ==
    LET locals == Rest(context, "layout")
        isTemplate == filename.ext = settings.extension
    IN  IF Truthy(context, "layout")
        THEN LET name == Basename(context["layout"], settings.extension)
                 inner == IF isTemplate
                          THEN Template(contents, locals, partials)
                          ELSE Return(contents)
             IN  IF ~Truthy(settings.layouts, name)
                 THEN Throw(Error("LayoutMissing", context["layout"], filename))
                 ELSE IF ~inner.ok THEN inner
                 ELSE Template(settings.layouts[name],
                               Spread(locals, [contents |-> inner.text]),
                               partials)
        ELSE IF isTemplate THEN Template(contents, locals, partials)
        ELSE Return(contents)

RECURSIVE compile(_, _, _, _, _)
compile(filename, contents, context, settings, partials) ==
    LET locals == Rest(context, "layout")
    IN  IF Truthy(context, "layout")
        THEN LET layout == context["layout"]
                 name == Basename(layout, settings.extension)
             IN  IF ~Truthy(settings.layouts, name)
                 THEN Throw(LayoutError(layout, filename))
                 ELSE LET inner ==
                              IF filename.ext = settings.extension
                              THEN compile(filename, contents, locals,
                                           settings, partials)
                              ELSE Return(contents)
                      IN  IF ~inner.ok THEN inner
                          ELSE Template(settings.layouts[name],
                                        Spread(context, [contents |-> inner.text]),
                                        partials)
        ELSE IF filename.ext = settings.extension
        THEN Template(contents, locals, partials)
        ELSE Return(contents)

\* render, with the global metadata spread over the locals
renderGlobalsWin(filename, file, settings, partials) ==
    compile(filename, BufferToString(file.contents),
            Spread(file.locals, settings.metadata), settings, partials)

\* render(filename, file, settings): what the promise settles to
render(filename, file, settings, partials) ==
    compile(filename, BufferToString(file.contents),
            Spread(settings.metadata, file.locals), settings, partials)

\* one step of compile: a call of compile (op "compile") or the call of a
\* compiled template (op "template") of the file's contents or of the
\* layout, the depth of the recursion it is at and the context it gets
Step(op, of, depth, context) ==
    [op |-> op, of |-> of, depth |-> depth, context |-> context]

\* the steps of compile, the recursive call given an empty context
compileStepsInnerBare(filename, contents, context, settings, partials, depth) ==
    LET call == <<Step("compile", "", depth, context)>>
        isTemplate == filename.ext = settings.extension
        below == IF isTemplate
                 THEN <<Step("compile", "", depth + 1, EmptyObject),
                        Step("template", "contents", depth + 1, EmptyObject)>>
                 ELSE <<>>
    IN  IF Truthy(context, "layout")
        THEN IF ~Truthy(settings.layouts,
                        Basename(context["layout"], settings.extension))
             THEN call
             ELSE call \o below \o
                  <<Step("template", "layout", depth, context)>>
        ELSE IF isTemplate
        THEN call \o <<Step("template", "contents", depth,
                            Rest(context, "layout"))>>
        ELSE call

\* the steps of compile, the whole context handed down, layout and all
compileStepsKeepsLayout(filename, contents, context, settings, partials, depth) ==
    LET call == <<Step("compile", "", depth, context)>>
        isTemplate == filename.ext = settings.extension
        below == IF isTemplate
                 THEN <<Step("compile", "", depth + 1, context),
                        Step("template", "contents", depth + 1, context)>>
                 ELSE <<>>
    IN  IF Truthy(context, "layout")
        THEN IF ~Truthy(settings.layouts,
                        Basename(context["layout"], settings.extension))
             THEN call
             ELSE call \o below \o
                  <<Step("template", "layout", depth, context)>>
        ELSE IF isTemplate
        THEN call \o <<Step("template", "contents", depth, context)>>
        ELSE call

\* the steps of compile, the contents compiled as a template whatever the
\* file's extension
compileStepsAlwaysRenders(filename, contents, context, settings, partials, depth) ==
    LET locals == Rest(context, "layout")
        call == <<Step("compile", "", depth, context)>>
        below == <<Step("compile", "", depth + 1, locals),
                   Step("template", "contents", depth + 1, locals)>>
    IN  IF Truthy(context, "layout")
        THEN IF ~Truthy(settings.layouts,
                        Basename(context["layout"], settings.extension))
             THEN call
             ELSE call \o below \o
                  <<Step("template", "layout", depth, context)>>
        ELSE call \o <<Step("template", "contents", depth, locals)>>

\* what a call of compile does, in order: the call itself, the recursive
\* call for the contents of a template under a layout, and the templates
\* that are called
RECURSIVE compileSteps(_, _, _, _, _, _)
compileSteps(filename, contents, context, settings, partials, depth) ==
    LET locals == Rest(context, "layout")
        call == <<Step("compile", "", depth, context)>>
    IN  IF Truthy(context, "layout")
        THEN LET layout == context["layout"]
                 name == Basename(layout, settings.extension)
             IN  IF ~Truthy(settings.layouts, name)
                 THEN call
                 ELSE LET inner ==
                              IF filename.ext = settings.extension
                              THEN compile(filename, contents, locals,
                                           settings, partials)
                              ELSE Return(contents)
                          below ==
                              IF filename.ext = settings.extension
                              THEN compileSteps(filename, contents, locals,
                                                settings, partials, depth + 1)
                              ELSE <<>>
                      IN  IF ~inner.ok THEN call \o below
                          ELSE call \o below \o
                               <<Step("template", "layout", depth,
                                      Spread(context,
                                             [contents |-> inner.text]))>>
        ELSE IF filename.ext = settings.extension
        THEN call \o <<Step("template", "contents", depth, locals)>>
        ELSE call

\* what a call of render does: the steps of its call of compile
renderSteps(filename, file, settings, partials) ==
    compileSteps(filename, BufferToString(file.contents),
                 Spread(settings.metadata, file.locals), settings, partials, 0)

\* file.contents = Buffer.from(...), unless compile threw
Rendered(file, result) ==
    IF result.ok THEN [file EXCEPT !.contents = BufferFrom(result.text)]
    ELSE file

\* ------------------------------------------------------------------- move

\* move(files, filename, extension)
move(fileset, filename, extension) ==
    LET newname == HtmlName(filename)
    IN  IF newname # filename /\ filename.ext = extension
        THEN [k \in (DOMAIN fileset \cup {newname}) \ {filename} |->
                 IF k = newname THEN fileset[filename] ELSE fileset[k]]
        ELSE fileset

\* Object.keys after move: a new key goes last, the deleted key goes
moveKeys(keyseq, filename, extension) ==
    LET newname == HtmlName(filename)
        has(seq, k) == \E i \in 1..Len(seq) : seq[i] = k
    IN  IF newname # filename /\ filename.ext = extension
        THEN LET kept == SelectSeq(keyseq, LAMBDA k : k # filename)
             IN  IF has(kept, newname) THEN kept ELSE Append(kept, newname)
        ELSE keyseq

\* ------------------------------------------------------------- filesystem

\* a directory entry: its base name, its extension, and what fs.readFile
\* gives for it
Entry(name, ext, code, data) ==
    [name |-> name, ext |-> ext, code |-> code, data |-> data]

MainLayout ==
    <<"[", "{{title}}", "{{layout}}", "{{__dirname}}", "{{{contents}}}", "]">>

\* fs.readdir(directory): the error code ("" for none) and the entries
ReadDir(directory) ==
    CASE directory = "layouts" ->
            [err |-> "", entries |->
                <<Entry(<<"sub">>, ".hbs", "EISDIR", <<>>),
                  Entry(<<"main">>, ".hbs", "", MainLayout),
                  Entry(<<"README">>, ".md", "", <<"a">>)>>]
      [] directory = "partials" ->
            [err |-> "", entries |->
                <<Entry(<<"p">>, ".hbs", "", <<"p:", "{{title}}">>)>>]
      [] directory = "helpers" ->
            [err |-> "", entries |->
                <<Entry(<<"h">>, ".js", "", <<>>),
                  Entry(<<"notes">>, ".md", "", <<>>)>>]
      [] directory = "locked" ->
            [err |-> "", entries |->
                <<Entry(<<"q">>, ".hbs", "EACCES", <<>>)>>]
      [] OTHER -> [err |-> "ENOENT", entries |-> <<>>]

\* an fs error, as the Error the callback gets
IOError(code) == Error(code, <<>>, Path("", "", ""))

\* ------------------------------------------------------------------ inputs

XHbs == Path("", "x", ".hbs")
XHtml == Path("", "x", ".html")
YMd == Path("", "y", ".md")

\* the paths of the host's file set, in the order of its keys
AllPaths == <<XHbs, XHtml, YMd>>

PathSet == {AllPaths[i] : i \in 1..Len(AllPaths)}

File(contents, locals) == [contents |-> contents, locals |-> locals]

\* the files a path may hold: contents (a Buffer) and front-matter locals
FileValues ==
    { File(<<"a", "{{title}}", "{{layout}}">>, [title |-> <<"T", "<">>]),
      File(<<"{{title}}", "{{> p}}">>, [layout |-> <<"main">>]),
      File(<<"xFF", "{{title}}">>, EmptyObject),
      File(<<"b">>, [layout |-> <<"nope">>, title |-> <<"T">>]),
      File(<<"{{#">>, [layout |-> <<"main", ".hbs">>]),
      File(<<"{{layout}}", "a">>, [layout |-> <<>>]) }

FileSets ==
    UNION { [S -> FileValues] :
              S \in {T \in SUBSET PathSet : Cardinality(T) <= MaxFiles} }

\* metalsmith.metadata()
Metadatas ==
    { [title |-> <<"G">>],
      [title |-> <<"G">>, layout |-> <<"main">>] }

\* metalsmith.directory()
Directory == <<"/site">>

Patterns == {"**/*.hbs", "*.{html,hbs}", "foo.bar"}

\* the layouts, partials and helpers options ("" for an option not set)
Resources ==
    { <<"", "", "">>,
      <<"layouts", "", "">>,
      <<"layouts", "partials", "helpers">>,
      <<"missing", "partials", "">>,
      <<"", "missing", "">>,
      <<"layouts", "locked", "helpers">>,
      <<"missing", "locked", "">> }

Options ==
    { [pattern |-> p, extension |-> ".hbs",
       layouts |-> r[1], partials |-> r[2], helpers |-> r[3]] :
          p \in Patterns, r \in Resources }

Loaders == {"layouts", "partials", "helpers"}

\* ------------------------------------------------------------------- state

VARIABLES
    files,       \* the host's file set: path -> file
    keys,        \* Object.keys(files), in order
    metadata,    \* the host's global metadata
    options,     \* the plugin's options
    pc,          \* where handlebars() is
    validFiles,  \* the selected paths
    loader,      \* each resource loader: where it is, its listing, its map
    layouts,     \* the layouts variable of handlebars()
    partials,    \* Handlebars' registered partials: name -> source
    helpers,     \* Handlebars' registered helpers: the names
    settings,    \* the settings of the compiling stage
    idx,         \* the position in validFiles of the render or move loop
    results,     \* what the render promises settled to, in order
    calls,       \* the calls of done: the error of each (NoError for null)
    files0,      \* the file set as the host handed it over
    renders,     \* how often render was called for each path
    steps        \* what each call of render did, step by step

vars == <<files, keys, metadata, options, pc, validFiles, loader, layouts,
          partials, helpers, settings, idx, results, calls, files0, renders,
          steps>>

NoSettings ==
    [metadata |-> EmptyObject, extension |-> "", layouts |-> EmptyObject]

Idle == [pc |-> "unset", entries |-> <<>>, i |-> 0, map |-> EmptyObject]

Init ==
    /\ files \in FileSets
    /\ keys = SelectSeq(AllPaths, LAMBDA f : f \in DOMAIN files)
    /\ metadata \in Metadatas
    /\ options \in Options
    /\ pc = "start"
    /\ validFiles = <<>>
    /\ loader = [l \in Loaders |-> Idle]
    /\ layouts = EmptyObject
    /\ partials = EmptyObject
    /\ helpers = {}
    /\ settings = NoSettings
    /\ idx = 0
    /\ results = <<>>
    /\ calls = <<>>
    /\ files0 = files
    /\ renders = [f \in DOMAIN files |-> 0]
    /\ steps = <<>>

\* ----------------------------------------------------------- handlebars()

\* the check of an empty selection, left out
NoMatchIgnored(valid) == FALSE

\* validFiles.length === 0
NoMatch(valid) == Len(valid) = 0

\* every loader pushed to tasks, its option set or not
TasksAll(opts) == Loaders

\* the loaders pushed to tasks: those whose option is set
Tasks(opts) == {l \in Loaders : opts[l] # ""}

\* the plugin is called: select the files, throw on none, else start the
\* loaders (each runs up to its fs.readdir) and await them all
Start ==
    /\ pc = "start"
    /\ LET valid == Match(keys, options.pattern)
       IN  /\ validFiles' = valid
           /\ IF NoMatch(valid)
              THEN /\ calls' = Append(calls, Error("NoMatch", <<>>, Path("", "", "")))
                   /\ pc' = "done"
                   /\ UNCHANGED loader
              ELSE /\ loader' = [l \in Loaders |->
                                   IF l \in Tasks(options)
                                   THEN [Idle EXCEPT !.pc = "readdir"]
                                   ELSE Idle]
                   /\ pc' = "await_loaders"
                   /\ UNCHANGED calls
    /\ UNCHANGED <<files, keys, metadata, options, layouts, partials, helpers,
                   settings, idx, results, files0, renders, steps>>

\* ------------------------------------------------------------ the loaders

\* every error of fs.readFile rejects, EISDIR too
asyncReadRejectsAll(entry) ==
    IF entry.code # "" THEN [err |-> entry.code, file |-> <<>>]
    ELSE [err |-> "", file |-> entry.data]

\* asyncRead(filepath): the error it rejects with ("" when it resolves) and
\* the string it resolves to (<<>> for null, which is as falsy as "")
asyncRead(entry) ==
    IF entry.code = "EISDIR" THEN [err |-> "", file |-> <<>>]
    ELSE IF entry.code # "" THEN [err |-> entry.code, file |-> <<>>]
    ELSE [err |-> "", file |-> entry.data]

\* the for loop of registerPartials and loadLayouts, from entry i on: it
\* skips the entries of another extension and stops at the next asyncRead,
\* or ends
Loop(entries, i, map, extension) ==
    LET hit == {j \in i..Len(entries) : entries[j].ext = extension}
    IN  IF hit = {}
        THEN [pc |-> "resolved", entries |-> entries,
              i |-> Len(entries) + 1, map |-> map]
        ELSE [pc |-> "read", entries |-> entries,
              i |-> CHOOSE j \in hit : \A k \in hit : j <= k, map |-> map]

\* a loader rejects: Promise.all(tasks) rejects with the first rejection,
\* and the catch block calls done(err) before any other callback runs
Rejects(l, err) ==
    /\ loader' = [loader EXCEPT ![l].pc = "rejected"]
    /\ IF pc = "await_loaders"
       THEN calls' = Append(calls, err) /\ pc' = "done"
       ELSE UNCHANGED <<pc, calls>>

\* the callback of fs.readdir in loadFiles, for loadLayouts and
\* registerPartials
LoadFilesDone(l) ==
    /\ l \in {"layouts", "partials"}
    /\ loader[l].pc = "readdir"
    /\ LET r == ReadDir(options[l])
           next == Loop(r.entries, 1, EmptyObject, options.extension)
       IN  IF r.err # ""
           THEN Rejects(l, IOError(r.err)) /\ UNCHANGED layouts
           ELSE /\ loader' = [loader EXCEPT ![l] = next]
                /\ layouts' = IF l = "layouts" /\ next.pc = "resolved"
                              THEN next.map ELSE layouts
                /\ UNCHANGED <<pc, calls>>
    /\ UNCHANGED <<files, keys, metadata, options, validFiles, partials,
                   helpers, settings, idx, results, files0, renders, steps>>

\* the callback of fs.readFile in asyncRead, and the loop up to the next
\* read
AsyncReadDone(l) ==
    /\ loader[l].pc = "read"
    /\ LET me == loader[l]
           entry == me.entries[me.i]
           r == asyncRead(entry)
           skip == r.file = <<>>
           map == IF l = "layouts" /\ ~skip
                  THEN Spread(me.map, entry.name :> r.file)
                  ELSE me.map
           next == Loop(me.entries, me.i + 1, map, options.extension)
       IN  IF r.err # ""
           THEN Rejects(l, IOError(r.err)) /\ UNCHANGED <<layouts, partials>>
           ELSE /\ loader' = [loader EXCEPT ![l] = next]
                /\ partials' = IF l = "partials" /\ ~skip
                               THEN Spread(partials, entry.name :> r.file)
                               ELSE partials
                /\ layouts' = IF l = "layouts" /\ next.pc = "resolved"
                              THEN next.map ELSE layouts
                /\ UNCHANGED <<pc, calls>>
    /\ UNCHANGED <<files, keys, metadata, options, validFiles, helpers,
                   settings, idx, results, files0, renders, steps>>

\* the callback of fs.readdir for registerHelpers, and its loop: require
\* and register every .js entry
RegisterHelpers ==
    /\ loader["helpers"].pc = "readdir"
    /\ LET r == ReadDir(options.helpers)
           js == {j \in 1..Len(r.entries) : r.entries[j].ext = ".js"}
       IN  IF r.err # ""
           THEN Rejects("helpers", IOError(r.err)) /\ UNCHANGED helpers
           ELSE /\ loader' = [loader EXCEPT !["helpers"] =
                                 [pc |-> "resolved", entries |-> r.entries,
                                  i |-> Len(r.entries) + 1, map |-> EmptyObject]]
                /\ helpers' = helpers \cup {r.entries[j].name : j \in js}
                /\ UNCHANGED <<pc, calls>>
    /\ UNCHANGED <<files, keys, metadata, options, validFiles, layouts,
                   partials, settings, idx, results, files0, renders, steps>>

\* ------------------------------------------------- the compiling stage

\* only the layouts task awaited
TasksResolvedLayoutsOnly ==
    loader["layouts"].pc \in {"unset", "resolved"}

\* await Promise.all(tasks) resolves: every pushed task has resolved
TasksResolved ==
    \A l \in Loaders : loader[l].pc \in {"unset", "resolved"}

\* the settings object
Settings(meta, opts, layoutMap) ==
    [metadata |-> Spread([__dirname |-> Directory], meta),
     extension |-> opts.extension,
     layouts |-> layoutMap]

\* after await Promise.all(tasks): build settings, go on to the renders
BuildSettings ==
    /\ pc = "await_loaders"
    /\ TasksResolved
    /\ settings' = Settings(metadata, options, layouts)
    /\ pc' = "render"
    /\ idx' = 1
    /\ UNCHANGED <<files, keys, metadata, options, validFiles, loader, layouts,
                   partials, helpers, results, calls, files0, renders, steps>>

\* the next call of render, with the file's locals assigned to the shared
\* metadata of the settings
RenderStepShared ==
    /\ pc = "render"
    /\ idx <= Len(validFiles)
    /\ LET filename == validFiles[idx]
           shared == [settings EXCEPT
                         !.metadata = Spread(@, files[filename].locals)]
           result == render(filename, files[filename], shared, partials)
       IN  /\ files' = [files EXCEPT ![filename] = Rendered(@, result)]
           /\ results' = Append(results, result)
           /\ renders' = [renders EXCEPT ![filename] = @ + 1]
           /\ steps' = Append(steps, renderSteps(filename, files[filename],
                                                 shared, partials))
           /\ settings' = shared
    /\ idx' = idx + 1
    /\ UNCHANGED <<keys, metadata, options, pc, validFiles, loader, layouts,
                   partials, helpers, calls, files0>>

\* validFiles.map(...): the next call of render; its executor runs at once
RenderStep ==
    /\ pc = "render"
    /\ idx <= Len(validFiles)
    /\ LET filename == validFiles[idx]
           result == render(filename, files[filename], settings, partials)
       IN  /\ files' = [files EXCEPT ![filename] = Rendered(@, result)]
           /\ results' = Append(results, result)
           /\ renders' = [renders EXCEPT ![filename] = @ + 1]
           /\ steps' = Append(steps, renderSteps(filename, files[filename],
                                                 settings, partials))
    /\ idx' = idx + 1
    /\ UNCHANGED <<keys, metadata, options, pc, validFiles, loader, layouts,
                   partials, helpers, settings, calls, files0>>

\* the rejections of the render promises, not looked at
RejectedNone(settled) == {}

\* the render promises that rejected, by position
Rejected(settled) == {i \in 1..Len(settled) : ~settled[i].ok}

\* the rejection of the highest position
LastRejection(settled) ==
    settled[CHOOSE i \in Rejected(settled) :
                \A j \in Rejected(settled) : i >= j].error

\* what Promise.all of settled promises rejects with: the rejection of the
\* lowest position
FirstRejection(settled) ==
    settled[CHOOSE i \in Rejected(settled) :
                \A j \in Rejected(settled) : i <= j].error

\* await Promise.all(renders): on to the renames, or to the catch block
AwaitRenders ==
    /\ pc = "render"
    /\ idx > Len(validFiles)
    /\ IF Rejected(results) = {}
       THEN pc' = "move" /\ idx' = 1 /\ UNCHANGED calls
       ELSE /\ calls' = Append(calls, FirstRejection(results))
            /\ pc' = "done"
            /\ UNCHANGED idx
    /\ UNCHANGED <<files, keys, metadata, options, validFiles, loader, layouts,
                   partials, helpers, settings, results, files0, renders,
                   steps>>

\* one turn of a loop that calls move for each of validFiles
MoveAt(stage) ==
    /\ pc = stage
    /\ idx <= Len(validFiles)
    /\ files' = move(files, validFiles[idx], options.extension)
    /\ keys' = moveKeys(keys, validFiles[idx], options.extension)
    /\ idx' = idx + 1
    /\ UNCHANGED <<metadata, options, pc, validFiles, loader, layouts, partials,
                   helpers, settings, results, calls, files0, renders, steps>>

\* one turn of the rename loop
MoveStep == MoveAt("move")

\* what the host's callback throws, when it throws
CallbackError == Error("CallbackThrew", <<>>, Path("", "", ""))

\* the calls of done from the end of the try block on: done(null, ...),
\* and, when that call throws, the done(err, ...) of the catch block it is
\* in
DoneCalls(throws) ==
    IF throws THEN <<NoError, CallbackError>> ELSE <<NoError>>

\* done(null, files, metalsmith), with a callback that returns or throws
Done ==
    /\ pc = "move"
    /\ idx > Len(validFiles)
    /\ \E throws \in BOOLEAN : calls' = calls \o DoneCalls(throws)
    /\ pc' = "done"
    /\ UNCHANGED <<files, keys, metadata, options, validFiles, loader, layouts,
                   partials, helpers, settings, idx, results, files0, renders,
                   steps>>

Next ==
    \/ Start
    \/ \E l \in Loaders : LoadFilesDone(l)
    \/ \E l \in Loaders : AsyncReadDone(l)
    \/ RegisterHelpers
    \/ BuildSettings
    \/ RenderStep
    \/ AwaitRenders
    \/ MoveStep
    \/ Done

Spec == Init /\ [][Next]_vars

\* ------------------------------------------------- move, as its test calls it

\* the paths of the file sets move is tried on
MovePaths ==
    PathSet \cup {Path("", "y", ".hbs"), Path("d", "x", ".hbs"),
                  Path("d", "x", ".html")}

MoveOrder ==
    <<XHbs, XHtml, YMd, Path("", "y", ".hbs"), Path("d", "x", ".hbs"),
      Path("d", "x", ".html")>>

\* the value under a path: one that tells the entries apart
MoveValue(f) == File(<<f.dir, f.name, f.ext>>, EmptyObject)

InitMove ==
    /\ \E S \in SUBSET MovePaths : files = [f \in S |-> MoveValue(f)]
    /\ keys = SelectSeq(MoveOrder, LAMBDA f : f \in DOMAIN files)
    /\ validFiles = keys
    /\ \E e \in {".hbs", ".html", ".md"} :
          options = [pattern |-> "", extension |-> e,
                     layouts |-> "", partials |-> "", helpers |-> ""]
    /\ metadata = EmptyObject
    /\ pc = "every"
    /\ idx = 1
    /\ loader = [l \in Loaders |-> Idle]
    /\ layouts = EmptyObject
    /\ partials = EmptyObject
    /\ helpers = {}
    /\ settings = NoSettings
    /\ results = <<>>
    /\ calls = <<>>
    /\ files0 = files
    /\ renders = [f \in DOMAIN files |-> 0]
    /\ steps = <<>>

\* for (let file in files) move(files, file, ext): one turn
MoveEvery == MoveAt("every")

\* the loop has ended: start it again over the keys there are now
MoveOver ==
    /\ pc = "every"
    /\ idx > Len(validFiles)
    /\ validFiles' = keys
    /\ idx' = 1
    /\ pc' = "again"
    /\ UNCHANGED <<files, keys, metadata, options, loader, layouts, partials,
                   helpers, settings, results, calls, files0, renders, steps>>

\* one turn of the second loop
MoveAgain == MoveAt("again")

\* the second loop has ended
MoveEnd ==
    /\ pc = "again"
    /\ idx > Len(validFiles)
    /\ pc' = "moved"
    /\ UNCHANGED <<files, keys, metadata, options, validFiles, loader, layouts,
                   partials, helpers, settings, idx, results, calls, files0,
                   renders, steps>>

NextMove == MoveEvery \/ MoveOver \/ MoveAgain \/ MoveEnd

SpecMove == InitMove /\ [][NextMove]_vars

\* ------------------------------------------------------------------ claims

\* the selected files: the paths of the host's file set that match pattern
Selected == {f \in DOMAIN files0 : Matches(f, options.pattern)}

\* the merged context of a file: the global metadata overlaid by its locals
MergedContext(f) ==
    Spread(Spread([__dirname |-> Directory], metadata), files0[f].locals)

\* the file's raw body, as text
Raw(f) == BufferToString(files0[f].contents)

\* the run has ended and done was called once, with null
Succeeded == pc = "done" /\ calls = <<NoError>>

\* where a selected file is after the rename pass
Final(f) == IF f.ext = options.extension THEN HtmlName(f) ELSE f

\* C1: a selected file whose merged context has a layout that names a layout
\* of the LayoutMap settles to the layout template rendered against the whole
\* context plus contents, contents being the file's body rendered against
\* the context without layout for a template file and the raw body for any
\* other; when the body's render throws, so does compile.
C1_LayoutWrapsBody ==
    \A i \in 1..Len(results) :
        LET f == validFiles[i]
            context == MergedContext(f)
        IN  (/\ Truthy(context, "layout")
             /\ Truthy(layouts, Basename(context["layout"], options.extension)))
            =>
            LET name == Basename(context["layout"], options.extension)
                body == IF f.ext = options.extension
                        THEN Template(Raw(f), Rest(context, "layout"), partials)
                        ELSE Return(Raw(f))
            IN  IF body.ok
                THEN results[i] =
                        Template(layouts[name],
                                 Spread(context, [contents |-> body.text]),
                                 partials)
                ELSE ~results[i].ok

\* C1 witness: a template file with a loaded layout has been rendered, its
\* body through a registered partial
C1_Witness ==
    \E i \in 1..Len(results) :
        LET f == validFiles[i]
            context == MergedContext(f)
        IN  /\ results[i].ok
            /\ f.ext = options.extension
            /\ Truthy(context, "layout")
            /\ Truthy(layouts, Basename(context["layout"], options.extension))
            /\ \E k \in 1..Len(Raw(f)) : Raw(f)[k] = "{{> p}}"

\* the contents a template file without a layout is to end with: its raw
\* body rendered against the merged context
InPlace(f) == BufferFrom(Template(Raw(f), MergedContext(f), partials).text)

C3_Original ==
    Succeeded =>
        \A f \in Selected :
            (f.ext # options.extension /\ "layout" \notin DOMAIN files0[f].locals)
            => /\ f \in DOMAIN files
               /\ files[f].contents = files0[f].contents

\* C4, as claimed: when the run has ended, every file whose path does not
\* match pattern is under its path with what it held before.
C4_Original ==
    pc = "done" =>
        \A f \in DOMAIN files0 \ Selected :
            f \in DOMAIN files /\ files[f] = files0[f]

\* the selected file has a layout directive that names no loaded layout
MissingLayout(f) ==
    /\ Truthy(MergedContext(f), "layout")
    /\ ~Truthy(layouts, Basename(MergedContext(f)["layout"], options.extension))

\* the error done was called with names the layout and the file
NamesLayoutAndFile(error, f) ==
    /\ error.code = "LayoutMissing"
    /\ error.layout = MergedContext(f)["layout"]
    /\ error.from = f

\* C5, as claimed, read for the runs whose LayoutMap was built: a run with a
\* selected file whose layout is not in the LayoutMap ends with an error that
\* names that layout and that file, and with no file renamed.
C5_Original ==
    (pc = "done" /\ settings # NoSettings
        /\ \E f \in Selected : MissingLayout(f)) =>
        /\ Len(calls) = 1
        /\ \E f \in Selected : MissingLayout(f) /\ NamesLayoutAndFile(calls[1], f)
        /\ DOMAIN files = DOMAIN files0

\* the first position of validFiles whose render threw
FirstFailure ==
    CHOOSE i \in 1..Len(results) :
        ~results[i].ok /\ \A j \in 1..(i - 1) : results[j].ok

\* C5, amended: once the render stage is reached with a selected file whose
\* layout is not in the LayoutMap, no rename ever happens, and the run ends
\* with one error, that of the first selected file whose render throws; when
\* that is the missing-layout error, it names that file and its layout.
C5_MissingLayoutFails ==
    (settings # NoSettings /\ \E f \in Selected : MissingLayout(f)) =>
        /\ pc # "move"
        /\ DOMAIN files = DOMAIN files0
        /\ keys = SelectSeq(AllPaths, LAMBDA f : f \in DOMAIN files0)
        /\ pc = "done" =>
              /\ Len(calls) = 1
              /\ calls[1] # NoError
              /\ calls[1] = results[FirstFailure].error
              /\ MissingLayout(validFiles[FirstFailure])
                    => NamesLayoutAndFile(calls[1], validFiles[FirstFailure])

\* C5 witness: a run ended by the missing-layout error of a file that is not
\* the only selected one
C5_Witness ==
    /\ pc = "done"
    /\ settings # NoSettings
    /\ Len(validFiles) > 1
    /\ Len(calls) = 1
    /\ \E f \in Selected : MissingLayout(f) /\ NamesLayoutAndFile(calls[1], f)

\* C6: when no path matches pattern, the call of the plugin ends the run
\* with an error, and nothing was loaded, rendered or renamed: no loader was
\* started, the registry is empty and the file set is as it was.
C6_NoMatchIsError ==
    (pc # "start" /\ Selected = {}) =>
        /\ pc = "done"
        /\ Len(calls) = 1
        /\ calls[1].code = "NoMatch"
        /\ \A l \in Loaders : loader[l].pc = "unset"
        /\ layouts = EmptyObject /\ partials = EmptyObject /\ helpers = {}
        /\ results = <<>>
        /\ \A f \in DOMAIN renders : renders[f] = 0
        /\ files = files0

\* C6 witness: a run over a file set that is not empty, with resources
\* configured, ended by the error of the empty selection
C6_Witness ==
    /\ pc = "done"
    /\ Selected = {}
    /\ DOMAIN files0 # {}
    /\ options.layouts # ""
    /\ Len(calls) = 1
    /\ calls[1].code = "NoMatch"

\* C7, as claimed: once move was called for every key, exactly the entries
\* of the extension (whose .html name is another name) are under their .html
\* name with their value and their old key is gone, every other entry is
\* under its key with its value, and a second pass leaves all of that as it
\* is.
C7_Original ==
    pc \in {"again", "moved"} =>
        /\ \A f \in DOMAIN files0 :
              IF f.ext = options.extension /\ HtmlName(f) # f
              THEN /\ HtmlName(f) \in DOMAIN files
                   /\ files[HtmlName(f)] = files0[f]
                   /\ f \notin DOMAIN files
              ELSE /\ f \in DOMAIN files
                   /\ files[f] = files0[f]
        /\ \A k \in DOMAIN files :
              \E f \in DOMAIN files0 :
                  k = IF f.ext = options.extension THEN HtmlName(f) ELSE f

\* every render so far returned
AllRendered == \A i \in 1..Len(results) : results[i].ok

\* the render stage was reached
RenderStage == settings # NoSettings

\* a rename has happened or is about to
Renaming == pc = "move" \/ DOMAIN files # DOMAIN files0

\* C8, as claimed: by the end of every run each selected file was rendered
\* exactly once, and there is no rename before every render has returned.
C8_Original ==
    /\ \A f \in DOMAIN renders : renders[f] <= 1
    /\ pc = "done" => \A f \in Selected : renders[f] = 1
    /\ Renaming =>
          /\ Len(results) = Len(validFiles)
          /\ AllRendered
          /\ \A f \in Selected : renders[f] = 1

\* C8, amended: no file is ever rendered twice; by the end of every run that
\* reached the render stage each selected file was rendered exactly once,
\* whether renders failed or not; and there is no rename before every render
\* has returned.
C8_RenderOnceThenRename ==
    /\ \A f \in DOMAIN renders :
          renders[f] <= 1 /\ (renders[f] = 1 => f \in Selected)
    /\ (pc = "done" /\ RenderStage) => \A f \in Selected : renders[f] = 1
    /\ Renaming =>
          /\ Len(results) = Len(validFiles)
          /\ AllRendered
          /\ \A f \in Selected : renders[f] = 1

\* C8 witness: a run of two selected files has ended after a render threw,
\* both were rendered once and nothing was renamed
C8_Witness ==
    /\ pc = "done"
    /\ Len(validFiles) = 2
    /\ ~AllRendered
    /\ \A f \in Selected : renders[f] = 1
    /\ DOMAIN files = DOMAIN files0

\* what a directory gives for an extension: name -> source of the entries
\* that are read
Loaded(directory, extension) ==
    LET entries == ReadDir(directory).entries
        read == {j \in 1..Len(entries) :
                    /\ entries[j].ext = extension
                    /\ entries[j].code = ""
                    /\ entries[j].data # <<>>}
    IN  [n \in {entries[j].name : j \in read} |->
            entries[CHOOSE j \in read : entries[j].name = n].data]

\* the helpers a directory gives: the names of its .js entries
Required(directory) ==
    LET entries == ReadDir(directory).entries
    IN  {entries[j].name : j \in {k \in 1..Len(entries) : entries[k].ext = ".js"}}

\* a render has been called
RenderStarted == \E f \in DOMAIN renders : renders[f] > 0

\* C9: when render is first called, and from then on, every configured
\* loader has resolved, the LayoutMap holds every layout of the layouts
\* directory, and every partial and helper of the directories is registered.
C9_LoadsBeforeRender ==
    (RenderStarted \/ pc \in {"render", "move"}) =>
        /\ \A l \in Loaders :
              loader[l].pc = IF options[l] = "" THEN "unset" ELSE "resolved"
        /\ options.layouts # "" =>
              /\ layouts = Loaded(options.layouts, options.extension)
              /\ settings.layouts = layouts
        /\ options.partials # "" =>
              partials = Loaded(options.partials, options.extension)
        /\ options.helpers # "" => helpers = Required(options.helpers)

\* C9 witness: a render was called in a run with all three resources
\* configured
C9_Witness ==
    /\ RenderStarted
    /\ options.layouts # "" /\ options.partials # "" /\ options.helpers # ""
    /\ partials # EmptyObject
    /\ layouts # EmptyObject
    /\ helpers # {}

\* C10, as claimed: a layouts or partials directory that does not exist
\* gives an empty result, and its loader resolves.
C10_Original ==
    \A l \in {"layouts", "partials"} :
        (ReadDir(options[l]).err = "ENOENT" /\ loader[l].pc \notin {"unset", "readdir"})
        => /\ loader[l].pc = "resolved"
           /\ l = "layouts" => layouts = EmptyObject
           /\ l = "partials" => partials = EmptyObject

\* C10, amended: an option that is not set gives an empty result (its
\* loader is never started, nothing is read for it) and is no error; a
\* directory that does not exist makes its loader reject with ENOENT, the
\* run ends with an error before any render, and it is the ENOENT error
\* unless another loader rejected before.
C10_UnsetIsEmptyMissingFails ==
    \A l \in {"layouts", "partials"} :
        /\ options[l] = "" =>
              /\ loader[l].pc = "unset"
              /\ l = "layouts" => layouts = EmptyObject
              /\ l = "partials" => partials = EmptyObject
        /\ (options[l] # "" /\ ReadDir(options[l]).err = "ENOENT"
                /\ loader[l].pc \notin {"unset", "readdir"}) =>
              /\ loader[l].pc = "rejected"
              /\ pc = "done"
              /\ Len(calls) = 1
              /\ calls[1] # NoError
              /\ (\A k \in Loaders \ {l} : loader[k].pc # "rejected")
                    => calls[1] = IOError("ENOENT")
              /\ ~RenderStarted /\ settings = NoSettings
        /\ (pc = "done" /\ Len(calls) > 0 /\ calls[1].code = "ENOENT") =>
              \E k \in Loaders : options[k] # "" /\ loader[k].pc = "rejected"
        /\ (pc = "done" /\ Selected # {} /\ \A k \in Loaders : options[k] = "")
              => RenderStage

\* C10 witness: the layouts directory does not exist, its loader has
\* rejected and done was called with ENOENT; the partials loader had read
\* its directory by then
C10_Witness ==
    /\ ReadDir(options.layouts).err = "ENOENT"
    /\ options.layouts # ""
    /\ loader["layouts"].pc = "rejected"
    /\ loader["partials"].pc \in {"read", "resolved"}
    /\ calls = <<IOError("ENOENT")>>

\* ---------------------------------------------------------------- C11

\* the loaders that read files with asyncRead
Readers == {"layouts", "partials"}

\* loader l rejected because fs.readFile failed on the entry it was at
ReadFailed(l) ==
    /\ loader[l].pc = "rejected"
    /\ ReadDir(options[l]).err = ""

\* the error code of the entry loader l is at
CodeAt(l) == loader[l].entries[loader[l].i].code

\* the run failed before any render: done was called once with
\* an error, nothing was rendered, and the file set is as it was handed over
RunFailedUnrendered ==
    /\ pc = "done"
    /\ Len(calls) = 1
    /\ calls[1] # NoError
    /\ ~RenderStarted
    /\ settings = NoSettings
    /\ files = files0
    /\ keys = SelectSeq(AllPaths, LAMBDA f : f \in DOMAIN files0)

\* an entry that is a directory never rejects its loader, and never gets
\* into the layout map or the registry
DirectorySkipped(l) ==
    /\ loader[l].pc = "rejected" /\ ReadDir(options[l]).err = ""
          => CodeAt(l) \notin {"", "EISDIR"}
    /\ \A j \in 1..Len(loader[l].entries) :
          loader[l].entries[j].code = "EISDIR"
             => /\ loader[l].entries[j].name \notin DOMAIN loader[l].map
                /\ l = "partials"
                      => loader[l].entries[j].name \notin DOMAIN partials

\* C11, as the spec has it: a read of a resource file that fails with
\* another error than EISDIR fails the run with that very error (nothing is
\* rendered, nothing renamed, the host gets that error), and an EISDIR
\* entry is skipped
C11_Original ==
    \A l \in Readers :
        /\ ReadFailed(l)
              => RunFailedUnrendered /\ calls[1] = IOError(CodeAt(l))
        /\ DirectorySkipped(l)

\* C11, amended: a read of a resource file that fails with another error
\* than EISDIR fails the run: nothing is rendered, nothing is renamed and
\* the host gets one error, which is that error unless another loader
\* rejected first, and then the error of the first loader that rejected;
\* an EISDIR entry is skipped and does not fail its loader
C11_ReadFailureFailsRun ==
    \A l \in Readers :
        /\ ReadFailed(l)
              => /\ RunFailedUnrendered
                 /\ (\A k \in Loaders \ {l} : loader[k].pc # "rejected")
                       => calls[1] = IOError(CodeAt(l))
                 /\ \E k \in Loaders :
                       /\ loader[k].pc = "rejected"
                       /\ calls[1] = IOError(IF ReadDir(options[k]).err # ""
                                             THEN ReadDir(options[k]).err
                                             ELSE CodeAt(k))
        /\ DirectorySkipped(l)

\* a read failed with EACCES and the host got that error, in a run whose
\* layouts directory had a directory entry that was skipped
C11_Witness ==
    /\ ReadFailed("partials")
    /\ calls = <<IOError("EACCES")>>
    /\ loader["layouts"].pc = "resolved"
    /\ \E j \in 1..Len(loader["layouts"].entries) :
          loader["layouts"].entries[j].code = "EISDIR"

\* ---------------------------------------------------------------- C12

\* C12: every run calls the host's callback exactly once, never a second
\* time, whatever the callback does when it is called, throwing included:
\* at no point has done been called twice, and a run that has ended has
\* called it
C12_Original ==
    /\ Len(calls) <= 1
    /\ pc = "done" => Len(calls) = 1

\* ---------------------------------------------------------------- C13

\* the layout of the merged context of selected file f is loaded
LayoutLoaded(f) ==
    /\ Truthy(MergedContext(f), "layout")
    /\ Truthy(settings.layouts,
              Basename(MergedContext(f)["layout"], options.extension))

\* the steps of the render of the i-th selected file that call the template
\* of the file's own contents
BodySteps(i) ==
    {j \in 1..Len(steps[i]) :
        steps[i][j].op = "template" /\ steps[i][j].of = "contents"}

\* C13: when a template file is wrapped in a layout, the inner render of
\* the file's own body gets every key of the global metadata and every
\* local of the merged context but layout, each with the value it has in
\* the merged context
C13_InnerSeesGlobals ==
    \A i \in 1..Len(steps) :
        LET f == validFiles[i]
            merged == MergedContext(f)
        IN  (LayoutLoaded(f) /\ f.ext = options.extension)
               => /\ BodySteps(i) # {}
                  /\ \A j \in BodySteps(i) :
                        LET inner == steps[i][j].context
                        IN  /\ steps[i][j].depth = 1
                            /\ DOMAIN inner = DOMAIN merged \ {"layout"}
                            /\ (DOMAIN metadata \cup {"__dirname"})
                                   \ {"layout"} \subseteq DOMAIN inner
                            /\ DOMAIN files0[f].locals \ {"layout"}
                                   \subseteq DOMAIN inner
                            /\ \A k \in DOMAIN inner : inner[k] = merged[k]

\* a template file under a loaded layout was rendered, and its body saw the
\* global title and __dirname, which the file does not set itself
C13_Witness ==
    \E i \in 1..Len(steps) :
        /\ LayoutLoaded(validFiles[i])
        /\ validFiles[i].ext = options.extension
        /\ "title" \notin DOMAIN files0[validFiles[i]].locals
        /\ \E j \in BodySteps(i) :
              /\ steps[i][j].context["title"] = metadata["title"]
              /\ steps[i][j].context["__dirname"] = Directory

\* ---------------------------------------------------------------- C14

\* the steps of the render of the i-th selected file that get a context
\* from further up: the recursive calls of compile and the calls of the
\* template of the file's own contents
HandedDown(i) ==
    {j \in 1..Len(steps[i]) :
        \/ steps[i][j].op = "compile" /\ steps[i][j].depth > 0
        \/ steps[i][j].op = "template" /\ steps[i][j].of = "contents"}

\* C14: the context of a recursive call of compile and the context the
\* template of a file's own contents is called with never have a layout
\* key
C14_NoLayoutBelow ==
    \A i \in 1..Len(steps) :
        \A j \in HandedDown(i) : "layout" \notin DOMAIN steps[i][j].context

\* a file whose context has a layout was rendered: compile called itself
\* and the template of the contents, and the context of the outer call had
\* the layout key
C14_Witness ==
    \E i \in 1..Len(steps) :
        /\ "layout" \in DOMAIN steps[i][1].context
        /\ \E j, k \in HandedDown(i) :
              /\ steps[i][j].op = "compile"
              /\ steps[i][k].op = "template"

\* ---------------------------------------------------------------- C15

\* the steps of the render of the i-th selected file that call a template
Renderings(i) == {j \in 1..Len(steps[i]) : steps[i][j].op = "template"}

\* C15: the render of a selected file calls at most two templates, at most
\* one of its own contents and at most one of the layout, and compile
\* calls itself at most one level deep; with no layout in the context at
\* most one template is called, and none for a file that has no layout and
\* is not a template
C15_AtMostTwoRenderings ==
    \A i \in 1..Len(steps) :
        LET f == validFiles[i]
            layout == Truthy(MergedContext(f), "layout")
        IN  /\ Cardinality(Renderings(i)) <= 2
            /\ \A of \in {"contents", "layout"} :
                  Cardinality({j \in Renderings(i) : steps[i][j].of = of}) <= 1
            /\ \A j \in 1..Len(steps[i]) : steps[i][j].depth <= 1
            /\ Cardinality({j \in 1..Len(steps[i]) :
                               steps[i][j].op = "compile"}) <= 2
            /\ ~layout => /\ Cardinality(Renderings(i)) <= 1
                          /\ \A j \in 1..Len(steps[i]) : steps[i][j].depth = 0
            /\ (~layout /\ f.ext # options.extension) => Renderings(i) = {}

\* one run rendered a file with two templates, one level deep, and a file
\* with none
C15_Witness ==
    /\ \E i \in 1..Len(steps) :
          /\ Cardinality(Renderings(i)) = 2
          /\ \E j \in 1..Len(steps[i]) : steps[i][j].depth = 1
    /\ \E i \in 1..Len(steps) :
          /\ Renderings(i) = {}
          /\ results[i].ok

\* ---------------------------------------------------------------- C16

\* the LayoutMap and the partial registry as the loaders leave them
LoadedLayouts ==
    IF options.layouts = "" THEN EmptyObject
    ELSE Loaded(options.layouts, options.extension)

LoadedPartials ==
    IF options.partials = "" THEN EmptyObject
    ELSE Loaded(options.partials, options.extension)

\* the RenderSettings as they are built before the first render
BuiltSettings == Settings(metadata, options, LoadedLayouts)

\* the orders the render tasks can run in: the permutations of validFiles
RenderOrders ==
    {o \in [1..Len(validFiles) -> 1..Len(validFiles)] :
        \A i, j \in 1..Len(validFiles) : o[i] = o[j] => i = j}

\* the file set after the render tasks have run one after the other in
\* order o from task k on, each on the file set the tasks before it left
RECURSIVE RenderedInOrder(_, _, _)
RenderedInOrder(o, k, fileset) ==
    IF k > Len(validFiles) THEN fileset
    ELSE LET filename == validFiles[o[k]]
             result == render(filename, fileset[filename], BuiltSettings,
                              LoadedPartials)
         IN  RenderedInOrder(o, k + 1,
                 [fileset EXCEPT ![filename] = Rendered(@, result)])

\* C16: the render tasks are independent. Once rendering has started the
\* settings, the LayoutMap, the global metadata and the registry are as
\* they were built; each task's result is the render of its own file as the
\* host handed it over; during the render stage each file is as handed
\* over but for the contents of the rendered ones; and when all tasks have
\* run without error the file set is the one every order of the tasks gives
C16_RendersIndependent ==
    RenderStarted =>
        /\ settings = BuiltSettings
        /\ layouts = LoadedLayouts
        /\ partials = LoadedPartials
        /\ \A i \in 1..Len(results) :
              results[i] = render(validFiles[i], files0[validFiles[i]],
                                  BuiltSettings, LoadedPartials)
        /\ pc = "render" =>
              /\ DOMAIN files = DOMAIN files0
              /\ \A f \in DOMAIN files :
                    /\ files[f].locals = files0[f].locals
                    /\ files[f].contents # files0[f].contents =>
                          \E i \in 1..Len(results) :
                              /\ validFiles[i] = f
                              /\ files[f] = Rendered(files0[f], results[i])
        /\ (pc = "render" /\ idx > Len(validFiles) /\ AllRendered) =>
              \A o \in RenderOrders : RenderedInOrder(o, 1, files0) = files

\* two files were rendered without error, the second with a context that
\* differs from the first's, and the file set changed
C16_Witness ==
    /\ pc = "render"
    /\ Len(results) = 2
    /\ AllRendered
    /\ steps[1][1].context # steps[2][1].context
    /\ Cardinality(RenderOrders) = 2
    /\ files # files0

\* ---------------------------------------------------------------- C17

\* the positions of validFiles whose render threw
Failures == {i \in 1..Len(results) : ~results[i].ok}

\* C17: when the render of more than one selected file fails, the host is
\* called once, with the error of the first of them in the order the tasks
\* ran; the errors of the others reach nobody, a failed task has written
\* nothing, and there is no rename
C17_FirstErrorOnly ==
    Cardinality(Failures) > 1 =>
        /\ Len(calls) <= 1
        /\ pc \in {"render", "done"}
        /\ DOMAIN files = DOMAIN files0
        /\ \A i \in Failures : files[validFiles[i]] = files0[validFiles[i]]
        /\ pc = "done" =>
              /\ calls = <<results[FirstFailure].error>>
              /\ \A i \in Failures \ {FirstFailure} :
                    results[i].error # results[FirstFailure].error
                       => \A c \in 1..Len(calls) : calls[c] # results[i].error

\* a run ended with two failed renders of different errors, and the host
\* got the first
C17_Witness ==
    /\ pc = "done"
    /\ Cardinality(Failures) = 2
    /\ \E i \in Failures :
          /\ i # FirstFailure
          /\ results[i].error # results[FirstFailure].error
    /\ calls = <<results[FirstFailure].error>>

\* ---------------------------------------------------------------- C18

\* what selected file f is after its render
RenderedFile(f) ==
    Rendered(files0[f],
             results[CHOOSE i \in 1..Len(results) : validFiles[i] = f])

\* C18: after a successful run every selected file is in the file set under
\* exactly one path, its own if it is no template and its .html path if it
\* is one, with its own rendered contents, and the file set has as many
\* entries as before the run
C18_Original ==
    Succeeded =>
        /\ Cardinality(DOMAIN files) = Cardinality(DOMAIN files0)
        /\ \A f \in Selected :
              /\ Final(f) \in DOMAIN files
              /\ files[Final(f)] = RenderedFile(f)
              /\ Final(f) # f => f \notin DOMAIN files

\* ---------------------------------------------------------------- C19

\* C19: once done has been called the stage has no further side effect: no
\* step taken after the call registers a partial or a helper in the
\* template engine's registry, or changes the file set
C19_Original ==
    [][pc = "done" =>
          /\ partials' = partials
          /\ helpers' = helpers
          /\ files' = files]_vars

====
